---- MODULE Spec2Model ----
(***************************************************************************)
(* The imputation pipeline of normalize_and_clean_data.py: process_file    *)
(* loads one table, runs the cleaning steps on it in a fixed order and     *)
(* hands the result to save_cleaned_data.                                  *)
(*                                                                         *)
(* A table (pandas DataFrame) is a sequence of rows; a row is a function   *)
(* from column names to cells.  A cell is a tagged tuple: Null (NaN / NA), *)
(* Txt(s) (a string) or Num(n, d) (the number n/d in lowest terms, d > 0), *)
(* so that means and medians are exact and text and numbers never compare  *)
(* equal.  The grouping key city is never null (spec section 3).           *)
(***************************************************************************)
EXTENDS Integers, Sequences, FiniteSets, TLC

VARIABLES file, df, dedup_result, saved, error, pc

vars == <<file, df, dedup_result, saved, error, pc>>

\* ---------------------------------------------------------------- bounds
MaxRows == 3

\* ----------------------------------------------------------------- cells
Null == <<"null">>

Txt(s) == <<"str", s>>

Abs(n) == IF n < 0 THEN -n ELSE n

RECURSIVE Gcd(_, _)
Gcd(a, b) == IF b = 0 THEN a ELSE Gcd(b, a % b)

Num(n, d) ==
  LET g == Gcd(Abs(n), d) IN <<"num", n \div g, d \div g>>

Whole(n) == Num(n, 1)

IsNull(c) == c = Null

NotNull(c) == c # Null

IsNum(c) == c[1] = "num"

Numer(c) == c[2]

Denom(c) == c[3]

\* a <= b on numbers; any comparison with NaN is false
NumLeq(a, b) ==
  /\ IsNum(a) /\ IsNum(b)
  /\ Numer(a) * Denom(b) <= Numer(b) * Denom(a)

NumLt(a, b) ==
  /\ IsNum(a) /\ IsNum(b)
  /\ Numer(a) * Denom(b) < Numer(b) * Denom(a)

NumAdd(a, b) == Num(Numer(a) * Denom(b) + Numer(b) * Denom(a), Denom(a) * Denom(b))

NumDivInt(a, k) == Num(Numer(a), Denom(a) * k)

\* round(): to the nearest integer, halves to the even neighbour (numpy and
\* Python 3 agree on this)
RoundHalfEven(a) ==
  LET n == Numer(a)
      d == Denom(a)
      q == n \div d            \* floor, also for negative n
      r == n - q * d           \* 0 <= r < d
  IN  IF 2 * r < d THEN Whole(q)
      ELSE IF 2 * r > d THEN Whole(q + 1)
      ELSE IF q % 2 = 0 THEN Whole(q) ELSE Whole(q + 1)

\* ------------------------------------------------------ column helpers
Columns(d) == DOMAIN d[1]

Rows(d) == 1..Len(d)

\* the table d with cell (i, col) replaced by f[i], for the rows from i on
RECURSIVE SetColumnFrom(_, _, _, _)
SetColumnFrom(d, col, f, i) ==
  IF i > Len(d) THEN d
  ELSE SetColumnFrom([d EXCEPT ![i][col] = f[i]], col, f, i + 1)

\* df[col] = f: the table d with cell (i, col) replaced by f[i]
SetColumn(d, col, f) == SetColumnFrom(d, col, f, 1)

\* the non-null values of column col on the rows in S, as a sequence in row order
RECURSIVE ValuesFrom(_, _, _, _)
ValuesFrom(d, col, S, i) ==
  IF i > Len(d) THEN <<>>
  ELSE IF i \in S /\ NotNull(d[i][col])
       THEN <<d[i][col]>> \o ValuesFrom(d, col, S, i + 1)
       ELSE ValuesFrom(d, col, S, i + 1)

Values(d, col, S) == ValuesFrom(d, col, S, 1)

RECURSIVE SumFrom(_, _)
SumFrom(vs, i) == IF i > Len(vs) THEN Whole(0) ELSE NumAdd(vs[i], SumFrom(vs, i + 1))

\* Series.mean(): the mean of the non-null values, NaN when there is none
Mean(vs) == IF Len(vs) = 0 THEN Null ELSE NumDivInt(SumFrom(vs, 1), Len(vs))

\* the k-th smallest of vs (1-based)
Kth(vs, k) ==
  LET v == CHOOSE v \in {vs[i] : i \in 1..Len(vs)} :
             /\ Cardinality({j \in 1..Len(vs) : NumLt(vs[j], v)}) < k
             /\ Cardinality({j \in 1..Len(vs) : NumLeq(vs[j], v)}) >= k
  IN  v

\* Series.median(): NaN when there is no non-null value
Median(vs) ==
  LET n == Len(vs) IN
  IF n = 0 THEN Null
  ELSE IF n % 2 = 1 THEN Kth(vs, (n + 1) \div 2)
  ELSE NumDivInt(NumAdd(Kth(vs, n \div 2), Kth(vs, n \div 2 + 1)), 2)

Min(vs) == IF Len(vs) = 0 THEN Null ELSE Kth(vs, 1)

Max(vs) == IF Len(vs) = 0 THEN Null ELSE Kth(vs, Len(vs))

\* the rows of d whose city is city
CityRows(d, city) == {i \in Rows(d) : d[i].city = city}

\* ---------------------------------------------------------------- steps

\* remove_non_unique_ids: drop_duplicates(subset='id', keep='first') returns a
\* new table; without an id column the argument is returned
RECURSIVE FirstOccurrencesFrom(_, _)
FirstOccurrencesFrom(d, i) ==
  IF i > Len(d) THEN <<>>
  ELSE IF \E j \in 1..(i - 1) : d[j].id = d[i].id
       THEN FirstOccurrencesFrom(d, i + 1)
       ELSE <<d[i]>> \o FirstOccurrencesFrom(d, i + 1)

\* drop_duplicates with keep='last' in place of keep='first'
RECURSIVE LastOccurrencesFrom(_, _)
LastOccurrencesFrom(d, i) ==
  IF i > Len(d) THEN <<>>
  ELSE IF \E j \in (i + 1)..Len(d) : d[j].id = d[i].id
       THEN LastOccurrencesFrom(d, i + 1)
       ELSE <<d[i]>> \o LastOccurrencesFrom(d, i + 1)

remove_non_unique_ids_keep_last(d) ==
  IF "id" \in Columns(d) THEN LastOccurrencesFrom(d, 1) ELSE d

remove_non_unique_ids(d) ==
  IF "id" \in Columns(d) THEN FirstOccurrencesFrom(d, 1) ELSE d

\* get_price_stats_for_city: min and max price of the city's rows labelled
\* 'premium' and of those labelled 'low'; a label no row of the city carries
\* has no entry
\* the bands taken over the rows of every city
get_price_stats_any_city(d, city) ==
  LET labelled(c) == {i \in Rows(d) : d[i].condition = Txt(c)}
  IN  [c \in {c \in {"premium", "low"} : labelled(c) # {}} |->
         [min |-> Min(Values(d, "price", labelled(c))),
          max |-> Max(Values(d, "price", labelled(c)))]]

get_price_stats_for_city(d, city) ==
  LET labelled(c) == {i \in CityRows(d, city) : d[i].condition = Txt(c)}
  IN  [c \in {c \in {"premium", "low"} : labelled(c) # {}} |->
         [min |-> Min(Values(d, "price", labelled(c))),
          max |-> Max(Values(d, "price", labelled(c)))]]

\* an iteration that asks get_price_stats_for_city at every missing row,
\* whatever the cache holds
FillConditionRowUncached(rows, st, i) ==
  LET row   == rows[i]
      city  == row.city
      cname == city[2]
      stats == [c \in DOMAIN st.stats \cup {cname} |->
                  IF c = cname THEN get_price_stats_for_city(st.df, city)
                  ELSE st.stats[c]]
      inBand(c) == /\ c \in DOMAIN stats[cname]
                   /\ NumLeq(stats[cname][c].min, row.price)
                   /\ NumLeq(row.price, stats[cname][c].max)
      label == IF inBand("premium") THEN Txt("premium")
               ELSE IF inBand("low") THEN Txt("low")
               ELSE Txt("medium")
  IN  IF IsNull(row.condition)
      THEN [df    |-> [st.df EXCEPT ![i].condition = label],
            stats |-> stats,
            calls |-> Append(st.calls, cname)]
      ELSE st

\* one iteration of the iterrows() loop of fill_condition.  rows is the
\* snapshot iterrows() walks, st.df the table mutated through df.at, st.stats
\* the cache city_price_stats and st.calls the cities for which
\* get_price_stats_for_city was called, in call order.
FillConditionRow(rows, st, i) ==
  LET row   == rows[i]
      city  == row.city
      cname == city[2]
      stats == IF cname \in DOMAIN st.stats THEN st.stats
               ELSE [c \in DOMAIN st.stats \cup {cname} |->
                       IF c = cname THEN get_price_stats_for_city(st.df, city)
                       ELSE st.stats[c]]
      calls == IF cname \in DOMAIN st.stats THEN st.calls
               ELSE Append(st.calls, cname)
      inBand(c) == /\ c \in DOMAIN stats[cname]
                   /\ NumLeq(stats[cname][c].min, row.price)
                   /\ NumLeq(row.price, stats[cname][c].max)
      label == IF inBand("premium") THEN Txt("premium")
               ELSE IF inBand("low") THEN Txt("low")
               ELSE Txt("medium")
  IN  IF IsNull(row.condition)
      THEN [df    |-> [st.df EXCEPT ![i].condition = label],
            stats |-> stats,
            calls |-> calls]
      ELSE st

RECURSIVE FillConditionLoop(_, _, _)
FillConditionLoop(rows, st, i) ==
  IF i > Len(rows) THEN st
  ELSE FillConditionLoop(rows, FillConditionRow(rows, st, i), i + 1)

FillConditionPass(d) ==
  FillConditionLoop(d, [df |-> d, stats |-> <<>>, calls |-> <<>>], 1)

fill_condition(d) ==
  IF {"condition", "city", "price"} \subseteq Columns(d)
  THEN FillConditionPass(d).df
  ELSE d

\* the order Python gives the text values of the categorical columns when
\* Series.mode() sorts its result
TextOrder ==
  <<"apartmentBuilding", "blockOfFlats", "brick", "concreteSlab", "tenement">>

TextRank(c) == CHOOSE k \in 1..Len(TextOrder) : TextOrder[k] = c[2]

\* Series.mode(): the most frequent non-null values, sorted
Modes(vs) ==
  LET count(v) == Cardinality({j \in 1..Len(vs) : vs[j] = v})
  IN  {v \in {vs[j] : j \in 1..Len(vs)} :
         \A j \in 1..Len(vs) : count(vs[j]) <= count(v)}

\* the last of the sorted modes in place of the first
LastMode(vs) ==
  CHOOSE v \in Modes(vs) : \A w \in Modes(vs) : TextRank(w) <= TextRank(v)

\* mode()[0]: the first of the sorted modes
FirstMode(vs) ==
  CHOOSE v \in Modes(vs) : \A w \in Modes(vs) : TextRank(v) <= TextRank(w)

\* mode() of a column with no non-null value is empty and [0] raises KeyError
ModeRaises(d, col) == Len(Values(d, col, Rows(d))) = 0

FillWithMode(d, col) ==
  LET mode_value == FirstMode(Values(d, col, Rows(d)))
  IN  SetColumn(d, col,
        [i \in Rows(d) |-> IF IsNull(d[i][col]) THEN mode_value ELSE d[i][col]])

fill_missing_building_material(d) == FillWithMode(d, "buildingMaterial")

fill_missing_type(d) == FillWithMode(d, "type")

\* x.fillna(v): the nulls of column col replaced by the cell of the same row
\* of v
FillNa(d, col, v) ==
  SetColumn(d, col, [i \in Rows(d) |-> IF IsNull(d[i][col]) THEN v[i] ELSE d[i][col]])

\* groupby('city')['buildYear'].transform(lambda x: x.fillna(x.median()))
fill_missing_build_year(d) ==
  FillNa(d, "buildYear",
    [i \in Rows(d) |-> Median(Values(d, "buildYear", CityRows(d, d[i].city)))])

\* fillna(mean).round().astype('Int64'): round() acts on every cell, NaN
\* becomes NA
fill_missing_floor_count(d) ==
  LET mean == Mean(Values(d, "floorCount", Rows(d)))
      filled(i) == IF IsNull(d[i].floorCount) THEN mean ELSE d[i].floorCount
  IN  SetColumn(d, "floorCount",
        [i \in Rows(d) |->
           IF IsNull(filled(i)) THEN Null ELSE RoundHalfEven(filled(i))])

\* floor_means.get(floorCount, df['floor'].mean()): groupby drops the NA key,
\* every other floorCount of the table is a key, with NaN as its mean when
\* the group has no floor
FloorMeanFor(d, i) ==
  IF IsNull(d[i].floorCount)
  THEN Mean(Values(d, "floor", Rows(d)))
  ELSE Mean(Values(d, "floor", {j \in Rows(d) : d[j].floorCount = d[i].floorCount}))

\* round(nan) raises ValueError
FillFloorRaises(d) ==
  \E i \in Rows(d) : IsNull(d[i].floor) /\ IsNull(FloorMeanFor(d, i))

fill_missing_floor(d) ==
  SetColumn(d, "floor",
    [i \in Rows(d) |->
       IF NotNull(d[i].floor) THEN d[i].floor
       ELSE RoundHalfEven(FloorMeanFor(d, i))])

distance_columns ==
  <<"schoolDistance", "clinicDistance", "postOfficeDistance",
    "kindergartenDistance", "restaurantDistance", "collegeDistance",
    "pharmacyDistance">>

AnyNull(d, col) == \E i \in Rows(d) : IsNull(d[i][col])

AnyNotNull(d, col) == \E i \in Rows(d) : NotNull(d[i][col])

\* the comprehension walking distance_columns from the last to the first
correlated_columns_reversed(d, column) ==
  LET n   == Len(distance_columns)
      rev == [k \in 1..n |-> distance_columns[n + 1 - k]]
  IN  SelectSeq(rev,
                LAMBDA col : col # column /\ AnyNull(d, column) /\ AnyNotNull(d, col))

\* the list comprehension of line 146, evaluated once before the inner loop
correlated_columns(d, column) ==
  SelectSeq(distance_columns,
            LAMBDA col : col # column /\ AnyNull(d, column) /\ AnyNotNull(d, col))

\* df[column] = df[column].fillna(df[correlated_column]), for the columns
\* cols[k..] in turn
RECURSIVE CrossFill(_, _, _, _)
CrossFill(d, column, cols, k) ==
  IF k > Len(cols) THEN d
  ELSE CrossFill(
         SetColumn(d, column,
           [i \in Rows(d) |->
              IF IsNull(d[i][column]) THEN d[i][cols[k]] ELSE d[i][column]]),
         column, cols, k + 1)

\* line 146 to 149: the substitution, then
\* groupby('city')[column].transform(lambda x: x.fillna(x.mean()))
FillDistanceColumn(d, column) ==
  LET crossed == CrossFill(d, column, correlated_columns(d, column), 1)
  IN  FillNa(crossed, column,
        [i \in Rows(d) |-> Mean(Values(crossed, column, CityRows(crossed, crossed[i].city)))])

RECURSIVE FillDistancesFrom(_, _)
FillDistancesFrom(d, k) ==
  IF k > Len(distance_columns) THEN d
  ELSE FillDistancesFrom(FillDistanceColumn(d, distance_columns[k]), k + 1)

fill_missing_distances(d) == FillDistancesFrom(d, 1)

\* the floor count above which a missing hasElevator becomes 'yes'
ElevatorFloors == 5

\* pd.isna(hasElevator) and floorCount > 5 is NA when floorCount is NA, and
\* the truth value of NA raises TypeError
HasElevatorRaises(d) ==
  \E i \in Rows(d) : IsNull(d[i].hasElevator) /\ IsNull(d[i].floorCount)

\* the rule applied to every row, whether or not hasElevator is missing
fill_has_elevator_every_row(d) ==
  SetColumn(d, "hasElevator",
    [i \in Rows(d) |->
       IF NumLt(Whole(ElevatorFloors), d[i].floorCount) THEN Txt("yes") ELSE Txt("no")])

fill_missing_has_elevator(d) ==
  SetColumn(d, "hasElevator",
    [i \in Rows(d) |->
       IF IsNull(d[i].hasElevator) /\ NumLt(Whole(ElevatorFloors), d[i].floorCount)
       THEN Txt("yes")
       ELSE IF IsNull(d[i].hasElevator) THEN Txt("no")
       ELSE d[i].hasElevator])

\* a replacement that knows 'yes' only
replace_yes_only(d) ==
  [i \in Rows(d) |->
     [c \in DOMAIN d[i] |-> IF d[i][c] = Txt("yes") THEN Whole(1) ELSE d[i][c]]]

\* df.replace({'yes': 1, 'no': 0}) on every column; returns a new table
replace_yes_no(d) ==
  [i \in Rows(d) |->
     [c \in DOMAIN d[i] |->
        IF d[i][c] = Txt("yes") THEN Whole(1)
        ELSE IF d[i][c] = Txt("no") THEN Whole(0)
        ELSE d[i][c]]]

\* a replacement that overwrites every ownership cell
replace_every_ownership_value(d) ==
  SetColumn(d, "ownership", [i \in Rows(d) |-> Txt("part ownership")])

\* "udzial" stands for the Polish token of line 172 (written there with an
\* l-stroke)
replace_ownership_value(d) ==
  SetColumn(d, "ownership",
    [i \in Rows(d) |->
       IF d[i].ownership = Txt("udzial") THEN Txt("part ownership")
       ELSE d[i].ownership])

\* ------------------------------------------------------------- process_file

\* process_file, line 185 to 188: an empty table is skipped
LoadData ==
  /\ pc = "load_data"
  /\ df' = file
  /\ pc' = IF Len(file) = 0 THEN "returned_false" ELSE "remove_non_unique_ids"
  /\ UNCHANGED <<file, dedup_result, saved, error>>

\* line 190: the table remove_non_unique_ids returns is not assigned to df
RemoveNonUniqueIds ==
  /\ pc = "remove_non_unique_ids"
  /\ dedup_result' = remove_non_unique_ids(df)
  /\ pc' = "fill_condition"
  /\ UNCHANGED <<file, df, saved, error>>

FillCondition ==
  /\ pc = "fill_condition"
  /\ df' = fill_condition(df)
  /\ pc' = "fill_missing_building_material"
  /\ UNCHANGED <<file, dedup_result, saved, error>>

FillMissingBuildingMaterial ==
  /\ pc = "fill_missing_building_material"
  /\ IF ModeRaises(df, "buildingMaterial")
     THEN pc' = "raised" /\ error' = "KeyError" /\ UNCHANGED df
     ELSE pc' = "fill_missing_type" /\ df' = fill_missing_building_material(df) /\ UNCHANGED error
  /\ UNCHANGED <<file, dedup_result, saved>>

FillMissingType ==
  /\ pc = "fill_missing_type"
  /\ IF ModeRaises(df, "type")
     THEN pc' = "raised" /\ error' = "KeyError" /\ UNCHANGED df
     ELSE pc' = "fill_missing_build_year" /\ df' = fill_missing_type(df) /\ UNCHANGED error
  /\ UNCHANGED <<file, dedup_result, saved>>

FillMissingBuildYear ==
  /\ pc = "fill_missing_build_year"
  /\ df' = fill_missing_build_year(df)
  /\ pc' = "fill_missing_floor_count"
  /\ UNCHANGED <<file, dedup_result, saved, error>>

FillMissingFloorCount ==
  /\ pc = "fill_missing_floor_count"
  /\ df' = fill_missing_floor_count(df)
  /\ pc' = "fill_missing_floor"
  /\ UNCHANGED <<file, dedup_result, saved, error>>

FillMissingFloor ==
  /\ pc = "fill_missing_floor"
  /\ IF FillFloorRaises(df)
     THEN pc' = "raised" /\ error' = "ValueError" /\ UNCHANGED df
     ELSE pc' = "fill_missing_distances" /\ df' = fill_missing_floor(df) /\ UNCHANGED error
  /\ UNCHANGED <<file, dedup_result, saved>>

FillMissingDistances ==
  /\ pc = "fill_missing_distances"
  /\ df' = fill_missing_distances(df)
  /\ pc' = "fill_missing_has_elevator"
  /\ UNCHANGED <<file, dedup_result, saved, error>>

FillMissingHasElevator ==
  /\ pc = "fill_missing_has_elevator"
  /\ IF HasElevatorRaises(df)
     THEN pc' = "raised" /\ error' = "TypeError" /\ UNCHANGED df
     ELSE pc' = "replace_yes_no" /\ df' = fill_missing_has_elevator(df) /\ UNCHANGED error
  /\ UNCHANGED <<file, dedup_result, saved>>

ReplaceYesNo ==
  /\ pc = "replace_yes_no"
  /\ df' = replace_yes_no(df)
  /\ pc' = "replace_ownership_value"
  /\ UNCHANGED <<file, dedup_result, saved, error>>

ReplaceOwnershipValue ==
  /\ pc = "replace_ownership_value"
  /\ df' = replace_ownership_value(df)
  /\ pc' = "check_missing_values"
  /\ UNCHANGED <<file, dedup_result, saved, error>>

\* check_missing_values only logs the null counts
CheckMissingValues ==
  /\ pc = "check_missing_values"
  /\ pc' = "save_cleaned_data"
  /\ UNCHANGED <<file, df, dedup_result, saved, error>>

\* line 203 and 204: df is handed to save_cleaned_data
SaveCleanedData ==
  /\ pc = "save_cleaned_data"
  /\ saved' = df
  /\ pc' = "returned_true"
  /\ UNCHANGED <<file, df, dedup_result, error>>

Next ==
  \/ LoadData
  \/ RemoveNonUniqueIds
  \/ FillCondition
  \/ FillMissingBuildingMaterial
  \/ FillMissingType
  \/ FillMissingBuildYear
  \/ FillMissingFloorCount
  \/ FillMissingFloor
  \/ FillMissingDistances
  \/ FillMissingHasElevator
  \/ ReplaceYesNo
  \/ ReplaceOwnershipValue
  \/ CheckMissingValues
  \/ SaveCleanedData

\* the order in which process_file reaches its steps
PcOrder ==
  <<"load_data", "remove_non_unique_ids", "fill_condition",
    "fill_missing_building_material", "fill_missing_type",
    "fill_missing_build_year", "fill_missing_floor_count", "fill_missing_floor",
    "fill_missing_distances", "fill_missing_has_elevator", "replace_yes_no",
    "replace_ownership_value", "check_missing_values", "save_cleaned_data",
    "returned_true">>

\* the call of step has returned without raising and nothing has raised since
Completed(step) ==
  \E i, j \in 1..Len(PcOrder) : PcOrder[i] = step /\ PcOrder[j] = pc /\ i < j

\* the steps of line 190 to 200 as one function of the loaded table
Pipeline(d) ==
  LET d2 == fill_condition(d) IN
  IF ModeRaises(d2, "buildingMaterial") THEN [raised |-> TRUE, df |-> d2] ELSE
  LET d3 == fill_missing_building_material(d2) IN
  IF ModeRaises(d3, "type") THEN [raised |-> TRUE, df |-> d3] ELSE
  LET d6 == fill_missing_floor_count(fill_missing_build_year(fill_missing_type(d3))) IN
  IF FillFloorRaises(d6) THEN [raised |-> TRUE, df |-> d6] ELSE
  LET d8 == fill_missing_distances(fill_missing_floor(d6)) IN
  IF HasElevatorRaises(d8) THEN [raised |-> TRUE, df |-> d8] ELSE
  [raised |-> FALSE,
   df     |-> replace_ownership_value(replace_yes_no(fill_missing_has_elevator(d8)))]

\* Pipeline computes what the steps of process_file leave in df
PipelineMatchesSteps ==
  /\ pc = "returned_true" => Pipeline(file) = [raised |-> FALSE, df |-> saved]
  /\ pc = "raised" => Pipeline(file) = [raised |-> TRUE, df |-> df]

\* ------------------------------------------------------------------ inputs

\* a listing with every covered column present; row i of an input has id i
\* unless the input family says otherwise
Listing(i) ==
  [id                   |-> Whole(i),
   city                 |-> Txt("Warszawa"),
   price                |-> Whole(500),
   condition            |-> Txt("medium"),
   buildingMaterial     |-> Txt("brick"),
   type                 |-> Txt("blockOfFlats"),
   buildYear            |-> Whole(2000),
   floorCount           |-> Whole(4),
   floor                |-> Whole(2),
   schoolDistance       |-> Whole(1),
   clinicDistance       |-> Whole(1),
   postOfficeDistance   |-> Whole(1),
   kindergartenDistance |-> Whole(1),
   restaurantDistance   |-> Whole(1),
   collegeDistance      |-> Whole(1),
   pharmacyDistance     |-> Whole(1),
   hasElevator          |-> Txt("yes"),
   ownership            |-> Txt("condominium")]

\* the listing r with the cells of o written over it
Override(r, o) == [c \in DOMAIN r |-> IF c \in DOMAIN o THEN o[c] ELSE r[c]]

\* the table whose row i is Listing(i) overridden by f[i]
Table(f) == [i \in DOMAIN f |-> Override(Listing(i), f[i])]

\* process_file is about to load the table t
Start(t) ==
  /\ file = t
  /\ df = <<>>
  /\ dedup_result = <<>>
  /\ saved = <<>>
  /\ error = "none"
  /\ pc = "load_data"

\* the file holds at most MaxRows rows, each overriding its listing by a
\* member of Choices
InitWith(Choices) ==
  \E n \in 0..MaxRows : \E f \in [1..n -> Choices] : Start(Table(f))

\* the table t without its id column
WithoutId(t) == [i \in Rows(t) |-> [c \in DOMAIN t[i] \ {"id"} |-> t[i][c]]]

\* the seven distance cells of a row: those in the set known hold base plus
\* the position of their column, the others are null
Distances(known, base) ==
  [c \in {distance_columns[k] : k \in 1..Len(distance_columns)} |->
     LET k == CHOOSE k \in 1..Len(distance_columns) : distance_columns[k] = c
     IN  IF k \in known THEN Whole(base + k) ELSE Null]

InCity(city, cells) == [c \in DOMAIN cells \cup {"city"} |->
                          IF c = "city" THEN Txt(city) ELSE cells[c]]

\* two listings that differ in every covered column but hasElevator
LowRise ==
  [city |-> Txt("Warszawa"), condition |-> Txt("medium"), floorCount |-> Whole(4)]

HighRise ==
  InCity("Krakow", Distances(1..7, 0)) @@
  [price            |-> Whole(800),
   condition        |-> Txt("premium"),
   buildingMaterial |-> Txt("concreteSlab"),
   type             |-> Txt("tenement"),
   buildYear        |-> Whole(1990),
   floorCount       |-> Whole(8),
   floor            |-> Whole(7),
   ownership        |-> Txt("cooperative")]

WithCell(o, col, v) == [c \in DOMAIN o \cup {col} |-> IF c = col THEN v ELSE o[c]]

\* the same two listings as they come raw: no buildYear, textual hasElevator,
\* and no condition or the Polish ownership token
RawLowRise ==
  WithCell(WithCell(LowRise, "condition", Null), "buildYear", Null)

RawHighRise ==
  WithCell(WithCell(WithCell(HighRise, "ownership", Txt("udzial")), "buildYear", Null),
           "hasElevator", Txt("no"))

\* inputs of cleaned and of raw listings
ListingChoices ==
  {WithCell(o, "hasElevator", v) :
     o \in {LowRise, HighRise}, v \in {Whole(0), Whole(1), Null}}
  \cup {LowRise, RawLowRise, RawHighRise}

Init == InitWith(ListingChoices)

Spec == Init /\ [][Next]_vars

MaxId == 2

IdChoices ==
  [id : {Whole(k) : k \in 1..MaxId}, price : {Whole(200), Whole(800)}]

InitIds ==
  \E n \in 0..MaxRows : \E f \in [1..n -> IdChoices] :
    Start(Table(f)) \/ Start(WithoutId(Table(f)))

SpecIds == InitIds /\ [][Next]_vars

\* inputs that vary city, price and condition
ConditionChoices ==
  [city      : {Txt("Warszawa")},
   price     : {Whole(200), Whole(500), Whole(800)},
   condition : {Null, Txt("premium"), Txt("low")}]
  \cup
  [city      : {Txt("Krakow")},
   price     : {Whole(500)},
   condition : {Null, Txt("premium")}]

InitCondition == InitWith(ConditionChoices)

SpecCondition == InitCondition /\ [][Next]_vars

\* inputs of two cities with rows without condition among labelled ones
VisitChoices ==
  [city      : {Txt("Warszawa")},
   price     : {Whole(500), Whole(800)},
   condition : {Null, Txt("premium"), Txt("low")}]
  \cup
  [city      : {Txt("Krakow")},
   price     : {Whole(500)},
   condition : {Null, Txt("premium")}]

InitVisit == InitWith(VisitChoices)

SpecVisit == InitVisit /\ [][Next]_vars

\* inputs that vary the two mode-filled columns
ModeChoices ==
  [buildingMaterial : {Null, Txt("brick"), Txt("concreteSlab")},
   type             : {Null, Txt("apartmentBuilding"), Txt("blockOfFlats")}]

InitMode == InitWith(ModeChoices)

SpecMode == InitMode /\ [][Next]_vars

\* inputs that vary floorCount, floor and hasElevator
FloorChoices ==
  [floorCount  : {Null, Whole(5), Whole(6)},
   floor       : {Null, Whole(2), Whole(3)},
   hasElevator : {Null, Txt("no")}]

InitFloors == InitWith(FloorChoices)

SpecFloors == InitFloors /\ [][Next]_vars

\* inputs that vary city and which distances of a row are known
DistanceChoices ==
  {InCity("Warszawa", Distances({}, 0)),
   InCity("Warszawa", Distances(1..7, 0)),
   InCity("Warszawa", Distances(2..7, 10)),
   InCity("Warszawa", Distances({1}, 20)),
   InCity("Warszawa", Distances({3}, 30)),
   InCity("Warszawa", Distances({3, 6}, 40)),
   InCity("Warszawa", Distances({7}, 50)),
   InCity("Krakow", Distances({}, 0)),
   InCity("Krakow", Distances(1..7, 60)),
   InCity("Krakow", Distances({2}, 70))}

InitDistances == InitWith(DistanceChoices)

SpecDistances == InitDistances /\ [][Next]_vars

\* ------------------------------------------------------------------ claims

NoDuplicateIds(t) == \A i, j \in Rows(t) : i # j => t[i].id # t[j].id

IdsOf(t) == {t[i].id : i \in Rows(t)}

\* C1: when the input has an id column, the table handed to save_cleaned_data
\* has no two rows with the same id and still carries every id of the input.
C1_SavedIdsUnique ==
  (pc = "returned_true" /\ "id" \in Columns(file))
    => (NoDuplicateIds(saved) /\ IdsOf(saved) = IdsOf(file))

\* the rows of t that are the first to carry their id
FirstOfId(t) == {i \in Rows(t) : \A j \in 1..(i - 1) : t[j].id # t[i].id}

\* the k-th smallest member of the set of row numbers S
KthRow(S, k) == CHOOSE i \in S : Cardinality({j \in S : j <= i}) = k

\* C10: remove_non_unique_ids returns, for each id of its argument, exactly
\* the first row carrying it, the survivors in their original order; an
\* argument without an id column is returned unchanged.
C10_FirstOccurrencesInOrder ==
  Completed("remove_non_unique_ids") =>
    IF "id" \in Columns(file)
    THEN /\ Len(dedup_result) = Cardinality(FirstOfId(file))
         /\ \A k \in 1..Len(dedup_result) :
              dedup_result[k] = file[KthRow(FirstOfId(file), k)]
    ELSE dedup_result = file

\* C10 witness: a later duplicate of the first row's id was dropped and a
\* row with another id, standing after it, survived
C10_Witness ==
  /\ Completed("remove_non_unique_ids")
  /\ "id" \in Columns(file)
  /\ Len(file) = 3
  /\ file[2].id = file[1].id
  /\ file[2].price # file[1].price
  /\ file[3].id # file[1].id
  /\ Len(dedup_result) = 2

\* the prices of the rows of t in the city of row i that carry the label c
LabelledPrices(t, i, c) ==
  {t[j].price : j \in {j \in Rows(t) : t[j].city = t[i].city /\ t[j].condition = Txt(c)}}

\* p lies between the least and the greatest member of S
InBand(p, S) == (\E x \in S : NumLeq(x, p)) /\ (\E x \in S : NumLeq(p, x))

\* C4: fill_condition labels a row without condition 'premium' when its price
\* lies in the band of its city's 'premium' rows, else 'low' when it lies in
\* the band of its city's 'low' rows, else 'medium' (so a city with neither
\* label gets 'medium'); rows with a condition keep it.
C4_ConditionByCityBand ==
  Completed("fill_condition") =>
    \A i \in Rows(file) :
      df[i].condition =
        IF NotNull(file[i].condition) THEN file[i].condition
        ELSE IF InBand(file[i].price, LabelledPrices(file, i, "premium")) THEN Txt("premium")
        ELSE IF InBand(file[i].price, LabelledPrices(file, i, "low")) THEN Txt("low")
        ELSE Txt("medium")

\* C4 witness: the scenario of the specification, one city, condition
\* [null, premium, low], price [500, 800, 200], row 1 labelled 'medium'
C4_Witness ==
  /\ Completed("fill_condition")
  /\ Len(file) = 3
  /\ \A i \in 1..3 : file[i].city = Txt("Warszawa")
  /\ <<file[1].condition, file[2].condition, file[3].condition>>
       = <<Null, Txt("premium"), Txt("low")>>
  /\ <<file[1].price, file[2].price, file[3].price>>
       = <<Whole(500), Whole(800), Whole(200)>>
  /\ df[1].condition = Txt("medium")

\* the number of rows of t whose cell in col is v
CountOf(t, col, v) == Cardinality({j \in Rows(t) : t[j][col] = v})

\* v is a most frequent non-null value of column col of t
MostFrequent(t, col, v) ==
  /\ NotNull(v)
  /\ \E j \in Rows(t) : t[j][col] = v
  /\ \A j \in Rows(t) : NotNull(t[j][col]) => CountOf(t, col, t[j][col]) <= CountOf(t, col, v)

\* the row at which the value v first appears in column col of t
FirstRowOf(t, col, v) ==
  CHOOSE i \in Rows(t) : t[i][col] = v /\ \A j \in 1..(i - 1) : t[j][col] # v

\* column col of df is column col of the input with every null replaced by
\* the most frequent value that has the least rank[v] among the most frequent
ModeFilled(col, rank) ==
  \A i \in Rows(file) :
    IF NotNull(file[i][col]) THEN df[i][col] = file[i][col]
    ELSE /\ MostFrequent(file, col, df[i][col])
         /\ \A j \in Rows(file) :
              MostFrequent(file, col, file[j][col]) => rank[df[i][col]] <= rank[file[j][col]]

\* the row at which each value of column col first appears
AppearanceRank(col) ==
  [v \in {file[i][col] : i \in Rows(file)} |-> FirstRowOf(file, col, v)]

\* the place of each value of column col in string order
SortRank(col) ==
  [v \in {file[i][col] : i \in Rows(file)} \ {Null} |-> TextRank(v)]

NoExemplar(t, col) == \A i \in Rows(t) : IsNull(t[i][col])

\* the rows of the city of row i have no buildYear in the input
NoBuildYearInCity(i) ==
  \A j \in Rows(file) : file[j].city = file[i].city => IsNull(file[j].buildYear)

\* C9: a mode fill over a column with no non-null value raises nothing, the
\* column stays null and process_file goes on to hand the table over; the
\* median fill leaves buildYear null in the cities that have none, fills it
\* elsewhere and raises nothing.
C9_NoExemplarNoError ==
  /\ (Len(file) > 0 /\ (NoExemplar(file, "buildingMaterial") \/ NoExemplar(file, "type")))
       => /\ error # "KeyError"
          /\ pc = "returned_true" =>
               /\ NoExemplar(file, "buildingMaterial") => NoExemplar(saved, "buildingMaterial")
               /\ NoExemplar(file, "type") => NoExemplar(saved, "type")
  /\ Completed("fill_missing_build_year") =>
       \A i \in Rows(file) : IsNull(df[i].buildYear) <=> NoBuildYearInCity(i)

\* r is a whole number nearest to m
Nearest(r, m) ==
  /\ IsNum(r) /\ Denom(r) = 1
  /\ 2 * Abs(Numer(r) * Denom(m) - Numer(m)) <= Denom(m)

\* the rows that have the floorCount of row i after floor-count imputation
\* and had a floor in the input
FloorGroup(i) ==
  {j \in Rows(file) : df[j].floorCount = df[i].floorCount /\ NotNull(file[j].floor)}

\* C7: when some row has a floor, fill_missing_floor raises nothing and sets
\* every null floor to the rounded mean floor of the rows of the same
\* floorCount, or to the rounded mean floor of the table when no row of that
\* floorCount has a floor; rows with a floor keep it.
C7_FloorFromGroupOrTable ==
  (Len(file) > 0 /\ \E j \in Rows(file) : NotNull(file[j].floor))
    => /\ error # "ValueError"
       /\ Completed("fill_missing_floor") =>
            \A i \in Rows(file) :
              IF NotNull(file[i].floor) THEN df[i].floor = file[i].floor
              ELSE Nearest(df[i].floor,
                     Mean(Values(file, "floor",
                            IF FloorGroup(i) # {} THEN FloorGroup(i) ELSE Rows(file))))

\* C5: elevator imputation raises nothing and sets every row without
\* hasElevator to 'yes' (1 once normalized) when its floorCount after
\* floor-count imputation is greater than 5 and to 'no' (0) otherwise; rows
\* with a hasElevator keep it.
C5_ElevatorFromFloorCount ==
  /\ error # "TypeError"
  /\ pc = "replace_yes_no" =>
       \A i \in Rows(file) :
         df[i].hasElevator =
           IF NotNull(file[i].hasElevator) THEN file[i].hasElevator
           ELSE IF NumLt(Whole(5), df[i].floorCount) THEN Txt("yes") ELSE Txt("no")
  /\ Completed("replace_yes_no") =>
       \A i \in Rows(file) :
         df[i].hasElevator =
           IF NotNull(file[i].hasElevator)
           THEN (IF file[i].hasElevator = Txt("yes") THEN Whole(1)
                 ELSE IF file[i].hasElevator = Txt("no") THEN Whole(0)
                 ELSE file[i].hasElevator)
           ELSE IF NumLt(Whole(5), df[i].floorCount) THEN Whole(1) ELSE Whole(0)

\* the cell of row r in the m-th distance column at the time the k-th is
\* processed: the columns before the k-th are filled, the others are as read
SeenFrom(k, r, m) ==
  IF m < k THEN df[r][distance_columns[m]] ELSE file[r][distance_columns[m]]

\* the other distance columns that are non-null on row r at that time
Donors(k, r) ==
  {m \in 1..Len(distance_columns) : m # k /\ NotNull(SeenFrom(k, r, m))}

\* the least member of the non-empty set of positions S
First(S) == CHOOSE m \in S : \A n \in S : m <= n

\* the rows of the city of row r whose k-th distance is known once the
\* substitution from the other columns is done
KnownInCity(k, r) ==
  {j \in Rows(file) : /\ file[j].city = file[r].city
                      /\ (NotNull(file[j][distance_columns[k]]) \/ Donors(k, j) # {})}

\* C8: the distance columns are filled in the order of distance_columns; a
\* null of column C on row r takes the value, on row r, of the first other
\* column that is non-null there when C is processed, and the mean of C over
\* the rows of the same city only when no other column is; cells that were
\* not null are unchanged.
C8_DistanceFromFirstDonorThenCityMean ==
  Completed("fill_missing_distances") =>
    \A r \in Rows(file) : \A k \in 1..Len(distance_columns) :
      df[r][distance_columns[k]] =
        IF NotNull(file[r][distance_columns[k]]) THEN file[r][distance_columns[k]]
        ELSE IF Donors(k, r) # {} THEN SeenFrom(k, r, First(Donors(k, r)))
        ELSE Mean(Values(df, distance_columns[k], KnownInCity(k, r)))

\* C8 witness: a row with only postOfficeDistance and collegeDistance took
\* its schoolDistance from postOfficeDistance and its pharmacyDistance from
\* the filled schoolDistance, and a row of the same city with no distance at
\* all took the city mean
C8_Witness ==
  /\ Completed("fill_missing_distances")
  /\ \E r, q \in Rows(file) :
       /\ file[r].city = file[q].city
       /\ IsNull(file[r].schoolDistance) /\ IsNull(file[r].clinicDistance)
       /\ NotNull(file[r].postOfficeDistance) /\ NotNull(file[r].collegeDistance)
       /\ file[r].postOfficeDistance # file[r].collegeDistance
       /\ IsNull(file[r].pharmacyDistance)
       /\ df[r].schoolDistance = file[r].postOfficeDistance
       /\ df[r].pharmacyDistance = file[r].postOfficeDistance
       /\ Donors(1, q) = {}
       /\ IsNull(file[q].schoolDistance)
       /\ df[q].schoolDistance = file[r].postOfficeDistance

CoveredColumns ==
  {"condition", "buildingMaterial", "type", "floorCount", "floor", "hasElevator"}
    \cup {distance_columns[k] : k \in 1..Len(distance_columns)}

\* C2: the saved table has no null in condition, buildingMaterial, type,
\* floorCount, floor, the distance columns and hasElevator, and a null
\* buildYear only in rows of a city that has no buildYear in the input.
C2_NoNullLeft ==
  pc = "returned_true" =>
    \A i \in Rows(saved) :
      /\ \A c \in CoveredColumns : NotNull(saved[i][c])
      /\ IsNull(saved[i].buildYear) => NoBuildYearInCity(i)

\* t has no null in the covered columns, hasElevator is 0 or 1, the ids are
\* unique and no ownership is the Polish token
FullyImputed(t) ==
  /\ Len(t) > 0
  /\ \A i \in Rows(t) :
       /\ \A c \in CoveredColumns \cup {"buildYear"} : NotNull(t[i][c])
       /\ t[i].hasElevator \in {Whole(0), Whole(1)}
       /\ t[i].ownership # Txt("udzial")
  /\ NoDuplicateIds(t)

\* C3: the pipeline hands a fully imputed input on unchanged, and run again
\* on a fully imputed table it has saved it returns that table.
C3_Idempotent ==
  pc = "returned_true" =>
    /\ FullyImputed(file) => saved = file
    /\ FullyImputed(saved) => Pipeline(saved) = [raised |-> FALSE, df |-> saved]

\* C3 witness: a fully imputed input with a high building without elevator
\* and a low one with elevator went through the pipeline
C3_Witness ==
  /\ pc = "returned_true"
  /\ FullyImputed(file)
  /\ \E i, j \in Rows(file) :
       /\ file[i].hasElevator = Whole(0) /\ file[i].floorCount = Whole(8)
       /\ file[j].hasElevator = Whole(1) /\ file[j].floorCount = Whole(4)

\* the hasElevator cells of t are the text 'yes', the text 'no' or null
TextualElevator(t) ==
  \A i \in Rows(t) : t[i].hasElevator \in {Txt("yes"), Txt("no"), Null}

\* C11: when the hasElevator cells of the input are 'yes', 'no' or null, every
\* hasElevator cell of the saved table is the number 0 or 1 ('yes' became 1,
\* 'no' became 0, a null was imputed and then converted), and no cell of any
\* column of the saved table is the text 'yes' or 'no'.
C11_HasElevatorNumeric ==
  (pc = "returned_true" /\ TextualElevator(file)) =>
    /\ Len(saved) = Len(file)
    /\ \A i \in Rows(saved) :
         /\ saved[i].hasElevator \in {Whole(0), Whole(1)}
         /\ file[i].hasElevator = Txt("yes") => saved[i].hasElevator = Whole(1)
         /\ file[i].hasElevator = Txt("no") => saved[i].hasElevator = Whole(0)
         /\ \A c \in DOMAIN saved[i] : saved[i][c] \notin {Txt("yes"), Txt("no")}

\* C11 witness: an input with a 'no' cell, a null cell in a building of eight
\* floors and a null cell in a building of four floors was saved with 0, 1
\* and 0 in their place
C11_Witness ==
  /\ pc = "returned_true"
  /\ TextualElevator(file)
  /\ \E i, j, k \in Rows(file) :
       /\ file[i].hasElevator = Txt("no") /\ saved[i].hasElevator = Whole(0)
       /\ IsNull(file[j].hasElevator) /\ file[j].floorCount = Whole(8)
       /\ saved[j].hasElevator = Whole(1)
       /\ IsNull(file[k].hasElevator) /\ file[k].floorCount = Whole(4)
       /\ saved[k].hasElevator = Whole(0)

\* C12: the step replace_ownership_value turns every ownership cell equal to
\* the Polish token into 'part ownership' and leaves every other ownership
\* cell, every other column and the number of rows as they were; a table
\* that is saved has no ownership cell equal to the token.
C12_OwnershipTokenReplaced ==
  [][/\ pc = "replace_ownership_value" =>
          /\ Len(df') = Len(df)
          /\ \A i \in Rows(df) :
               /\ DOMAIN df'[i] = DOMAIN df[i]
               /\ df'[i].ownership =
                    IF df[i].ownership = Txt("udzial") THEN Txt("part ownership")
                    ELSE df[i].ownership
               /\ \A c \in DOMAIN df[i] \ {"ownership"} : df'[i][c] = df[i][c]
     /\ pc' = "returned_true" =>
          \A i \in Rows(saved') : saved'[i].ownership # Txt("udzial")]_vars

\* C12 witness: after the step a row that came with the token holds
\* 'part ownership' and a row that came as 'cooperative' still does
C12_Witness ==
  /\ pc = "check_missing_values"
  /\ \E i, j \in Rows(file) :
       /\ file[i].ownership = Txt("udzial")
       /\ df[i].ownership = Txt("part ownership")
       /\ file[j].ownership = Txt("cooperative")
       /\ df[j].ownership = Txt("cooperative")

\* the rows of t without condition
Unlabelled(t) == {i \in Rows(t) : IsNull(t[i].condition)}

\* the orders in which n rows can be visited
VisitOrders(n) ==
  {o \in [1..n -> 1..n] : \A a, b \in 1..n : a # b => o[a] # o[b]}

\* the iterations of fill_condition taken in the order o from position k on
RECURSIVE FillConditionVisit(_, _, _, _)
FillConditionVisit(rows, st, o, k) ==
  IF k > Len(rows) THEN st
  ELSE FillConditionVisit(rows, FillConditionRow(rows, st, o[k]), o, k + 1)

\* the condition column of t
Labels(t) == [i \in Rows(t) |-> t[i].condition]

\* b holds for the label c exactly the least and the greatest of the prices S
BandOf(b, c, S) ==
  IF S = {} THEN c \notin DOMAIN b
  ELSE /\ c \in DOMAIN b
       /\ b[c].min \in S /\ \A x \in S : NumLeq(b[c].min, x)
       /\ b[c].max \in S /\ \A x \in S : NumLeq(x, b[c].max)

\* C13: in one fill_condition pass get_price_stats_for_city is called at most
\* once for a city, and only for the cities of rows without condition; the
\* bands it caches are those of the 'premium' and 'low' rows of the table as
\* it was before the pass; and visiting the rows in any other order gives
\* every row the same label.
C13_BandsOncePerCityFromInput ==
  pc = "fill_missing_building_material" =>
    LET pass == FillConditionPass(file)
    IN  /\ \A i \in Rows(file) : df[i].condition = pass.df[i].condition
        /\ \A j, k \in 1..Len(pass.calls) : j # k => pass.calls[j] # pass.calls[k]
        /\ {pass.calls[j] : j \in 1..Len(pass.calls)} = DOMAIN pass.stats
        /\ DOMAIN pass.stats = {file[i].city[2] : i \in Unlabelled(file)}
        /\ \A i \in Unlabelled(file) : \A c \in {"premium", "low"} :
             BandOf(pass.stats[file[i].city[2]], c, LabelledPrices(file, i, c))
        /\ \A o \in VisitOrders(Len(file)) :
             Labels(FillConditionVisit(file, [df |-> file, stats |-> <<>>, calls |-> <<>>], o, 1).df)
               = Labels(df)

\* C13 witness: a row without condition was labelled 'premium' before a later
\* row without condition of the same city was visited, which got 'premium'
\* too, and the bands of that city were asked for once
C13_Witness ==
  /\ pc = "fill_missing_building_material"
  /\ \E i, j \in Unlabelled(file) :
       /\ i < j
       /\ file[i].city = file[j].city
       /\ df[i].condition = Txt("premium")
       /\ df[j].condition = Txt("premium")
  /\ Len(FillConditionPass(file).calls) = 1

====
